---- MODULE Spec2Model ----
(***************************************************************************)
(* Authentication gate, account provisioning, entity introspection,        *)
(* application factories and schema teardown of the flask boilerplate.     *)
(*                                                                         *)
(* SpecGate : one browser session issuing requests against the gate of     *)
(*            logic.py (get_current_user, is_authenticated, logout,        *)
(*            login_required) while rows of the user table are deleted.    *)
(* SpecProv : two concurrent callers of logic.create_user /                *)
(*            logic.create_admin_user on one user table.                   *)
(* SpecPw   : set_password / check_password on one models.User object.     *)
(* SpecIntro: logic.register_model_view on the entities of models.py and   *)
(*            on generated entities, with include / exclude lists.         *)
(* SpecApp  : app.create_app / web.create_app building apps from the       *)
(*            module-level web.factories registry.                         *)
(* SpecDrop : models.Database.destroy_db on a database whose foreign keys  *)
(*            may be enforced.                                             *)
(***************************************************************************)
EXTENDS Integers, FiniteSets, Sequences, TLC

VARIABLES
    users,        \* rows of table "user" (committed storage)
    nextId,       \* next autoincrement id of table "user"
    session,      \* flask session: [has |-> "_user_token" in session, token |-> its value]
    g,            \* flask g:       [has |-> hasattr(g, "user"), user |-> id held by g.user]
    method,       \* request.method of the request being served
    loginDisabled,\* app.config LOGIN_DISABLED
    op,           \* label of the last operation that ran
    ret,          \* what the last gate operation returned or raised
    sinceLogout,  \* "no" | "same" | "later": requests since a logout of a cached user
    pc,           \* per caller: position inside create_user
    args,         \* per caller: arguments of the running create_user call
    res,          \* per caller: outcome of the call
    lookups,      \* storage lookups get_current_user made in the current request
    served,       \* "cache" | "lookup" | "none": how the last gate call got its answer
    model,        \* the entity register_model_view is called with
    include,      \* its include argument
    exclude,      \* its exclude argument
    columns,      \* what register_model_view returned or raised
    registry,     \* web.factories._registry, a list of classes
    nCalls,       \* calls of create_app so far in this process
    appState,     \* "none" | "running" | "built" | "raised": the app being built
    runPos,       \* FactoryRegistry.run: <<index in _registry, index in routes>>
    appInst,      \* per class: instantiations made for the app being built
    appRules,     \* per endpoint: add_url_rule calls made on the app being built
    dbTables,     \* tables that exist in the database
    tables,       \* destroy_db: the work list
    forIdx,       \* destroy_db: index of the for loop in the work list
    dropCount,    \* per table: DROP TABLE statements that succeeded
    dropState,    \* "idle" | "for" | "while" | "done" | "raised"
    fkeys,        \* <<child, parent>>: table child has a foreign key to table parent
    enforced      \* the database refuses to drop a table that is still referenced

vars == <<users, nextId, session, g, method, loginDisabled, op, ret, sinceLogout,
          pc, args, res, lookups, served, model, include, exclude, columns,
          registry, nCalls, appState, runPos, appInst, appRules,
          dbTables, tables, forIdx, dropCount, dropState, fkeys, enforced>>

introVars == <<model, include, exclude, columns>>
facVars == <<registry, nCalls, appState, runPos, appInst, appRules>>
dropVars == <<dbTables, tables, forIdx, dropCount, dropState, fkeys, enforced>>


-----------------------------------------------------------------------------
(* Values *)

None == "None"                  \* Python None where a string is expected
NoUser == 0                     \* Python None where a User is expected
NoneInt == 0 - 1                \* Python None where an int is expected

NoRow == [id |-> NoUser]       \* no User object
NoRes == [tag |-> "-", user |-> NoRow, value |-> None, check |-> "-"]

STATUS_blocked == 0
STATUS_active == 1
ROLE_ADMIN == "admin"
ROLE_USER == "user"

MaxId == 3                      \* rows ever inserted are numbered 1 .. MaxId
MaxLookups == 2                 \* storage lookups followed within one request
MaxProps == 3                   \* fields of a generated entity
MaxFilter == 1                  \* names in an include or exclude list
MaxCalls == 3                   \* app builds in one process
MaxTables == 3                  \* tables in the database

Tokens == {"t1", "t2", "t3"}
Emails == {"a@x", "b@x"}
Passwords == {"pw1", "pw2", "pw3"}
Salts == {"s1", "s2", "s3"}
ProvPasswords == {"pw1"}        \* the passwords create_user is called with
ProvSalts == {"s1"}             \* the salts drawn inside create_user
Names == {"Ann"}
Methods == {"GET", "OPTIONS"}
Procs == {1, 2}

-----------------------------------------------------------------------------
(* Password hashing: werkzeug.security as called from models.User *)

HashMethod == "pbkdf2:sha256"

\* the keyed digest of a password under a salt
HashInternal(salt, password) == "H(" \o salt \o "," \o password \o ")"

\* generate_password_hash: "method$salt$hashval" with a fresh salt;
\* a None password has no .encode and raises
generate_password_hash(password, salt) ==
    HashMethod \o "$" \o salt \o "$" \o HashInternal(salt, password)

\* check_password_hash: split the stored string on "$" and recompute the digest
\* under the stored salt; a string that is not method$salt$hashval gives False
check_password_hash(pwhash, password) ==
    \E s \in Salts : pwhash = HashMethod \o "$" \o s \o "$" \o HashInternal(s, password)

\* User.set_password: stores the derived hash in password_hash
set_password(u, password, salt) ==
    [u EXCEPT !.password_hash = generate_password_hash(password, salt)]

\* the column attributes and methods class User has
UserAttrs == {"created", "deleted", "id", "name", "email", "password_hash",
              "status", "role", "login_token"}

\* User.check_password: reads self.password and compares
check_password(u, value) ==
    IF "password" \notin UserAttrs THEN "AttributeError"
    ELSE IF check_password_hash(u.password_hash, value) THEN "True" ELSE "False"

-----------------------------------------------------------------------------
(* Storage *)

Row(us, id) == CHOOSE u \in us : u.id = id

\* email = Column(String, index=True, unique=True, nullable=False)
UserEmailUniqueOff == FALSE
UserEmailUnique == TRUE

\* Query filter_by(...).first(): the first matching row, None when there is none
MinId(S) == CHOOSE i \in S : \A j \in S : i <= j

FirstId(rows) == IF rows = {} THEN NoUser ELSE MinId({u.id : u \in rows})

query_first_by_email(us, email) == FirstId({u \in us : u.email = email})

get_by_login_token(us, token) == FirstId({u \in us : u.login_token = token})

\* Model.delete(force): hard delete removes the row, soft delete sets the flag
ModelDelete(us, id, force) ==
    IF force THEN {u \in us : u.id # id}
    ELSE {IF u.id = id THEN [u EXCEPT !.deleted = TRUE] ELSE u : u \in us}

SeedUser(id, email, token, status, deleted) ==
    [id |-> id, name |-> "Ann", email |-> email,
     password_hash |-> generate_password_hash("pw1", "s1"),
     status |-> status, role |-> ROLE_USER, login_token |-> token,
     deleted |-> deleted]

-----------------------------------------------------------------------------
(* The parts of the state a specification does not exercise stay as they are *)

NotRun == [done |-> FALSE, raised |-> FALSE, out |-> <<>>]

IntroIdle == model = <<>> /\ include = {} /\ exclude = {} /\ columns = NotRun

FacIdle ==
    /\ registry = <<>> /\ nCalls = 0 /\ appState = "none" /\ runPos = <<0, 0>>
    /\ appInst = <<>> /\ appRules = <<>>

DropIdle ==
    /\ dbTables = {} /\ tables = <<>> /\ forIdx = 0 /\ dropCount = <<>>
    /\ dropState = "idle" /\ fkeys = {} /\ enforced = FALSE

-----------------------------------------------------------------------------
(* Authentication gate: logic.py *)

gateVars == <<session, g, method, loginDisabled, ret, sinceLogout, lookups, served>>
provVars == <<pc, args, res>>

NoSession == [has |-> FALSE, token |-> None]
FreshG == [has |-> FALSE, user |-> NoUser]

\* session.get("_user_token")
SessionGet(sv) == IF sv.has THEN sv.token ELSE None

RetUser(id) == [tag |-> "user", id |-> id]
RetNone == [tag |-> "None", id |-> NoUser]
RetRaise == [tag |-> "raise", id |-> NoUser]
RetTag(t) == [tag |-> t, id |-> NoUser]

\* get_current_user with the blocked branch leaving the session alone
get_current_user_keep(gv, sv, us) ==
    IF gv.has /\ gv.user # NoUser
    THEN [ret |-> RetUser(gv.user), g |-> gv, session |-> sv, served |-> "cache"]
    ELSE LET user_token == SessionGet(sv) IN
         IF user_token # None
         THEN LET found == get_by_login_token(us, user_token)
                  g1 == [has |-> TRUE, user |-> found]
              IN  IF found = NoUser
                  THEN [ret |-> RetRaise, g |-> g1, session |-> sv, served |-> "lookup"]
                  ELSE IF Row(us, found).status = STATUS_blocked
                  THEN [ret |-> RetNone, g |-> g1, session |-> sv, served |-> "lookup"]
                  ELSE [ret |-> RetUser(found), g |-> g1, session |-> sv, served |-> "lookup"]
         ELSE [ret |-> RetNone, g |-> gv, session |-> sv, served |-> "none"]

\* get_current_user that resolves the session token on every call
get_current_user_nocache(gv, sv, us) ==
    get_current_user_keep(FreshG, sv, us)

\* get_current_user: the value returned (or the raise), and g and session after
get_current_user(gv, sv, us) ==
    IF gv.has /\ gv.user # NoUser
    THEN [ret |-> RetUser(gv.user), g |-> gv, session |-> sv, served |-> "cache"]
    ELSE LET user_token == SessionGet(sv) IN
         IF user_token # None
         THEN LET found == get_by_login_token(us, user_token)
                  g1 == [has |-> TRUE, user |-> found]
              IN  IF found = NoUser
                  \* g.user is None: g.user.status raises AttributeError
                  THEN [ret |-> RetRaise, g |-> g1, session |-> sv, served |-> "lookup"]
                  ELSE IF Row(us, found).status = STATUS_blocked
                  THEN [ret |-> RetNone, g |-> g1,
                        session |-> [has |-> TRUE, token |-> None], served |-> "lookup"]
                  ELSE [ret |-> RetUser(found), g |-> g1, session |-> sv, served |-> "lookup"]
         ELSE [ret |-> RetNone, g |-> gv, session |-> sv, served |-> "none"]

\* is_authenticated: get_current_user() is not None
is_authenticated(gv, sv, us) ==
    LET r == get_current_user(gv, sv, us) IN
    [r EXCEPT !.ret = IF r.ret.tag = "raise" THEN RetRaise
                      ELSE IF r.ret.tag = "user" THEN RetTag("True")
                      ELSE RetTag("False")]

\* logout with the cached user left in g
logout_keep_g(gv, sv) == [g |-> gv, session |-> NoSession]

\* logout: pop "_user_token" from the session, g.user = None
logout(gv, sv) == [g |-> [has |-> TRUE, user |-> NoUser], session |-> NoSession]

\* 1 when the call went to storage
Lookup(r) == IF r.served = "lookup" THEN 1 ELSE 0

\* Security.context_processor: dict(current_user=get_current_user(),
\* is_authenticated=is_authenticated()); a raise of the first call ends it
context_processor(gv, sv, us) ==
    LET r1 == get_current_user(gv, sv, us)
        r2 == is_authenticated(r1.g, r1.session, us)
    IN  IF r1.ret.tag = "raise"
        THEN [ret |-> RetRaise, g |-> r1.g, session |-> r1.session,
              served |-> r1.served, lookups |-> Lookup(r1)]
        ELSE IF r2.ret.tag = "raise"
        THEN [ret |-> RetRaise, g |-> r2.g, session |-> r2.session,
              served |-> r2.served, lookups |-> Lookup(r1) + Lookup(r2)]
        ELSE [ret |-> [tag |-> "context", id |-> r1.ret.id, auth |-> r2.ret.tag],
              g |-> r2.g, session |-> r2.session,
              served |-> r2.served, lookups |-> Lookup(r1) + Lookup(r2)]

\* the attributes an instance of app.Security has
SecurityAttrs == {"routes", "init_app", "context_processor", "unauthorized",
                  "logout", "login_view", "signup_view"}

\* decorated_view of login_required: what the wrapped call returns
decorated_view(m, disabled, gv, sv, us) ==
    IF m \in {"OPTIONS"} THEN RetTag("view")
    ELSE IF disabled THEN RetTag("view")
    ELSE IF "is_authenticated" \notin SecurityAttrs THEN RetRaise
    \* a bound method is truthy: "not current_app.security.is_authenticated" is False
    ELSE RetTag("view")

-----------------------------------------------------------------------------
(* Gate actions *)

\* a new request of the same browser session: g is fresh, the session persists
NewRequest ==
    /\ \E m \in Methods : method' = m
    /\ g' = FreshG
    /\ sinceLogout' = IF sinceLogout = "same" THEN "later" ELSE sinceLogout
    /\ lookups' = 0
    /\ served' = "none"
    /\ op' = "request"
    /\ UNCHANGED <<users, nextId, session, loginDisabled, ret, pc, args, res>>
    /\ UNCHANGED <<introVars, facVars, dropVars>>

\* a login places a token in the session
SetSessionToken ==
    /\ \E t \in Tokens : session' = [has |-> TRUE, token |-> t]
    /\ sinceLogout' = "no"
    /\ op' = "login"
    /\ UNCHANGED <<users, nextId, g, method, loginDisabled, ret, pc, args, res>>
    /\ UNCHANGED <<lookups, served, introVars, facVars, dropVars>>

GetCurrentUser ==
    LET r == get_current_user(g, session, users) IN
    /\ g' = r.g
    /\ session' = r.session
    /\ ret' = r.ret
    /\ lookups + Lookup(r) <= MaxLookups
    /\ lookups' = lookups + Lookup(r)
    /\ served' = r.served
    /\ op' = "get_current_user"
    /\ UNCHANGED <<users, nextId, method, loginDisabled, sinceLogout, pc, args, res>>
    /\ UNCHANGED <<introVars, facVars, dropVars>>

IsAuthenticated ==
    LET r == is_authenticated(g, session, users) IN
    /\ g' = r.g
    /\ session' = r.session
    /\ ret' = r.ret
    /\ lookups + Lookup(r) <= MaxLookups
    /\ lookups' = lookups + Lookup(r)
    /\ served' = r.served
    /\ op' = "is_authenticated"
    /\ UNCHANGED <<users, nextId, method, loginDisabled, sinceLogout, pc, args, res>>
    /\ UNCHANGED <<introVars, facVars, dropVars>>

\* Security.logout: logic.logout() and then the unauthorized redirect
Logout ==
    LET r == logout(g, session) IN
    /\ g' = r.g
    /\ session' = r.session
    /\ ret' = RetTag("unauthorized")
    /\ sinceLogout' = IF g.has /\ g.user # NoUser THEN "same" ELSE sinceLogout
    /\ op' = "logout"
    /\ UNCHANGED <<users, nextId, method, loginDisabled, pc, args, res>>
    /\ UNCHANGED <<lookups, served, introVars, facVars, dropVars>>

\* a call of a view wrapped by login_required (Admin.homepage, table_view, edit_view)
ProtectedView ==
    /\ ret' = decorated_view(method, loginDisabled, g, session, users)
    /\ op' = "decorated_view"
    /\ UNCHANGED <<users, nextId, session, g, method, loginDisabled, sinceLogout,
                   pc, args, res>>
    /\ UNCHANGED <<lookups, served, introVars, facVars, dropVars>>

\* the template variables of a render: Security.context_processor
ContextProcessor ==
    LET r == context_processor(g, session, users) IN
    /\ g' = r.g
    /\ session' = r.session
    /\ ret' = r.ret
    /\ lookups + r.lookups <= MaxLookups
    /\ lookups' = lookups + r.lookups
    /\ served' = r.served
    /\ op' = "context_processor"
    /\ UNCHANGED <<users, nextId, method, loginDisabled, sinceLogout, pc, args, res>>
    /\ UNCHANGED <<introVars, facVars, dropVars>>

\* user.delete(force) on a stored row
DeleteUser ==
    /\ \E u \in users : \E force \in BOOLEAN :
          users' = ModelDelete(users, u.id, force)
    /\ users' # users
    /\ op' = "delete"
    /\ UNCHANGED <<nextId, gateVars, provVars, introVars, facVars, dropVars>>

InitGate ==
    /\ \E s1 \in {STATUS_blocked, STATUS_active}, s2 \in {STATUS_blocked, STATUS_active},
          d1 \in BOOLEAN :
          users = {SeedUser(1, "a@x", "t1", s1, d1), SeedUser(2, "b@x", "t2", s2, FALSE)}
    /\ nextId = 3
    /\ session \in {NoSession} \cup {[has |-> TRUE, token |-> t] : t \in Tokens}
    /\ g = FreshG
    /\ method \in Methods
    /\ loginDisabled \in BOOLEAN
    /\ op = "init"
    /\ ret = RetTag("init")
    /\ sinceLogout = "no"
    /\ lookups = 0
    /\ served = "none"
    /\ IntroIdle /\ FacIdle /\ DropIdle
    /\ pc = [p \in Procs |-> "idle"]
    /\ args = [p \in Procs |-> <<>>]
    /\ res = [p \in Procs |-> NoRes]

NextGate ==
    \/ NewRequest
    \/ SetSessionToken
    \/ GetCurrentUser
    \/ IsAuthenticated
    \/ Logout
    \/ ProtectedView
    \/ ContextProcessor
    \/ DeleteUser

SpecGate == InitGate /\ [][NextGate]_vars

-----------------------------------------------------------------------------
(* Account provisioning: logic.py *)

\* email_is_available that never refuses
email_is_available_always(us, email) == TRUE

\* email_is_available looking at rows that are not soft-deleted only
email_is_available_live(us, email) ==
    IF email = None THEN FALSE
    ELSE query_first_by_email({u \in us : ~u.deleted}, email) = NoUser

\* email_is_available: a None email is refused, else no row may hold the email
email_is_available(us, email) ==
    IF email = None THEN FALSE
    ELSE query_first_by_email(us, email) = NoUser

\* models.User(name=, email=, role=, status=int(status)); deleted defaults to False
NewUser(a, id) ==
    [id |-> id, name |-> a.name, email |-> a.email, password_hash |-> None,
     status |-> a.status, role |-> a.role, login_token |-> None, deleted |-> FALSE]

\* the body of create_user's transaction: build the User, set_password, session.add.
\* int(None) raises TypeError, generate_password_hash(None) raises.
create_user_body(a, id, salt) ==
    IF a.status = NoneInt THEN [raised |-> TRUE, added |-> {}]
    ELSE IF a.password = None THEN [raised |-> TRUE, added |-> {}]
    ELSE [raised |-> FALSE, added |-> {set_password(NewUser(a, id), a.password, salt)}]

\* the INSERT of the pending rows: the unique index on email rejects a second row
session_commit(us, added) ==
    IF UserEmailUnique /\ \E u \in us, n \in added : u.email = n.email
    THEN [raised |-> TRUE, users |-> us]
    ELSE [raised |-> FALSE, users |-> us \cup added]

\* db.txn(): commit on normal exit, roll back and re-raise on an exception
db_txn(us, body) ==
    IF body.raised THEN [raised |-> TRUE, users |-> us]
    ELSE LET c == session_commit(us, body.added) IN
         IF c.raised THEN [raised |-> TRUE, users |-> us]
         ELSE [raised |-> FALSE, users |-> c.users]

\* the transaction of create_user with a failure discarded and the user returned
create_user_txn_swallow(us, a, id, salt) ==
    LET t == db_txn(us, create_user_body(a, id, salt)) IN
    [tag |-> "created", users |-> t.users,
     user |-> IF t.raised THEN NewUser(a, id) ELSE Row(t.users, id)]

\* create_user after the availability check: "with db.txn() as session: ..." and
\* "return user"
create_user_txn(us, a, id, salt) ==
    LET t == db_txn(us, create_user_body(a, id, salt)) IN
    IF t.raised THEN [tag |-> "raise", users |-> us, user |-> NoRow]
    ELSE [tag |-> "created", users |-> t.users, user |-> Row(t.users, id)]

\* create_admin_user with the caller's role and status passed through
admin_args_passthrough(a) == a

\* create_admin_user: create_user(name, email, password, ROLE_ADMIN, STATUS["active"])
admin_args(a) == [a EXCEPT !.role = ROLE_ADMIN, !.status = STATUS_active]

-----------------------------------------------------------------------------
(* Provisioning actions *)

\* "if email_is_available(email):" of create_user; the call returns None otherwise
CheckEmail(p, a) ==
    /\ pc[p] = "idle"
    /\ args' = [args EXCEPT ![p] = a]
    /\ IF email_is_available(users, a.email)
       THEN /\ pc' = [pc EXCEPT ![p] = "txn"]
            /\ res' = res
       ELSE /\ pc' = [pc EXCEPT ![p] = "done"]
            /\ res' = [res EXCEPT ![p] = [NoRes EXCEPT !.tag = "None"]]
    /\ UNCHANGED <<users, nextId, gateVars, introVars, facVars, dropVars>>

CallCreateUser(p) ==
    /\ \E n \in Names, e \in Emails \cup {None}, pw \in ProvPasswords \cup {None},
          st \in {STATUS_blocked, NoneInt} :
          CheckEmail(p, [fn |-> "create_user", name |-> n, email |-> e,
                         password |-> pw, role |-> ROLE_USER, status |-> st])
    /\ op' = "call"

CallCreateAdminUser(p) ==
    /\ \E n \in Names, e \in Emails \cup {None}, pw \in ProvPasswords \cup {None} :
          CheckEmail(p, admin_args([fn |-> "create_admin_user", name |-> n,
                                    email |-> e, password |-> pw,
                                    role |-> ROLE_USER, status |-> STATUS_blocked]))
    /\ op' = "call"

\* the transaction of create_user and its return
Txn(p) ==
    /\ pc[p] = "txn"
    /\ nextId <= MaxId
    /\ \E salt \in ProvSalts :
          LET t == create_user_txn(users, args[p], nextId, salt) IN
          /\ users' = t.users
          /\ nextId' = IF t.tag = "created" THEN nextId + 1 ELSE nextId
          /\ res' = [res EXCEPT ![p] = [NoRes EXCEPT !.tag = t.tag, !.user = t.user]]
    /\ pc' = [pc EXCEPT ![p] = "done"]
    /\ op' = "call"
    /\ UNCHANGED <<args, gateVars, introVars, facVars, dropVars>>

\* the caller is done with the result
Return(p) ==
    /\ pc[p] = "done"
    /\ pc' = [pc EXCEPT ![p] = "idle"]
    /\ args' = [args EXCEPT ![p] = <<>>]
    /\ res' = [res EXCEPT ![p] = NoRes]
    /\ op' = "call"
    /\ UNCHANGED <<users, nextId, gateVars, introVars, facVars, dropVars>>

InitProv ==
    /\ \E d \in BOOLEAN :
          users \in {{}, {SeedUser(1, "a@x", "t1", STATUS_active, d)}}
    /\ nextId = 2
    /\ session = NoSession
    /\ g = FreshG
    /\ method = "GET"
    /\ loginDisabled = FALSE
    /\ op = "init"
    /\ ret = RetTag("init")
    /\ sinceLogout = "no"
    /\ lookups = 0
    /\ served = "none"
    /\ IntroIdle /\ FacIdle /\ DropIdle
    /\ pc = [p \in Procs |-> "idle"]
    /\ args = [p \in Procs |-> <<>>]
    /\ res = [p \in Procs |-> NoRes]

NextProv ==
    \/ \E p \in Procs : CallCreateUser(p)
    \/ \E p \in Procs : CallCreateAdminUser(p)
    \/ \E p \in Procs : Txn(p)
    \/ \E p \in Procs : Return(p)
    \/ DeleteUser

SpecProv == InitProv /\ [][NextProv]_vars

-----------------------------------------------------------------------------
(* Passwords of one User object: models.User.set_password / check_password *)

\* user.set_password(password) with a fresh salt
PwSetPassword ==
    /\ \E u \in users, pw \in Passwords, salt \in Salts :
          /\ users' = {set_password(u, pw, salt)}
          /\ args' = [args EXCEPT ![1] = [password |-> pw]]
    /\ res' = [res EXCEPT ![1] = NoRes]
    /\ op' = "set_password"
    /\ UNCHANGED <<nextId, gateVars, pc, introVars, facVars, dropVars>>

\* user.check_password(value)
PwCheckPassword ==
    /\ \E u \in users, v \in Passwords :
          /\ u.password_hash # None
          /\ res' = [res EXCEPT ![1] = [NoRes EXCEPT !.tag = "checked", !.user = u,
                                                     !.value = v,
                                                     !.check = check_password(u, v)]]
    /\ op' = "check_password"
    /\ UNCHANGED <<users, nextId, gateVars, pc, args, introVars, facVars, dropVars>>

InitPw ==
    /\ \E r \in {ROLE_ADMIN, ROLE_USER}, st \in {STATUS_blocked, STATUS_active} :
          users = {NewUser([name |-> "Ann", email |-> "a@x", role |-> r,
                            status |-> st], 1)}
    /\ nextId = 2
    /\ session = NoSession
    /\ g = FreshG
    /\ method = "GET"
    /\ loginDisabled = FALSE
    /\ op = "init"
    /\ ret = RetTag("init")
    /\ sinceLogout = "no"
    /\ lookups = 0
    /\ served = "none"
    /\ IntroIdle /\ FacIdle /\ DropIdle
    /\ pc = [p \in Procs |-> "idle"]
    /\ args = [p \in Procs |-> <<>>]
    /\ res = [p \in Procs |-> NoRes]

NextPw ==
    \/ PwSetPassword
    \/ PwCheckPassword

SpecPw == InitPw /\ [][NextPw]_vars

-----------------------------------------------------------------------------
(* Entity introspection: logic.register_model_view *)

\* a table column: column.key, column.table, bool(column.foreign_keys),
\* column.primary_key, str(column.type)
Col(key, table, fk, pk, type) ==
    [key |-> key, table |-> table, fk |-> fk, pk |-> pk, type |-> type]

\* a ColumnProperty (has .columns) and a RelationshipProperty (has .direction)
ColumnProp(key, cols) == [key |-> key, kind |-> "column", columns |-> cols,
                          direction |-> None]
RelProp(key, direction) == [key |-> key, kind |-> "relationship", columns |-> <<>>,
                            direction |-> direction]

\* the columns every entity inherits from models.Model
ModelColumns(table) ==
    << ColumnProp("created", <<Col("created", table, FALSE, FALSE, "DATETIME")>>),
       ColumnProp("deleted", <<Col("deleted", table, FALSE, FALSE, "BOOLEAN")>> ) >>

\* models.User, with the memberships backref of TeamMember.user
UserEntity ==
    [table |-> "user",
     props |-> << ColumnProp("id", <<Col("id", "user", FALSE, TRUE, "INTEGER")>>),
                  ColumnProp("name", <<Col("name", "user", FALSE, FALSE, "VARCHAR")>>),
                  ColumnProp("email", <<Col("email", "user", FALSE, FALSE, "VARCHAR")>>),
                  ColumnProp("password_hash",
                             <<Col("password_hash", "user", FALSE, FALSE, "VARCHAR")>>),
                  ColumnProp("status", <<Col("status", "user", FALSE, FALSE, "SMALLINT")>>),
                  ColumnProp("role", <<Col("role", "user", FALSE, FALSE, "VARCHAR")>>),
                  ColumnProp("login_token",
                             <<Col("login_token", "user", FALSE, FALSE, "VARCHAR")>>) >>
                \o ModelColumns("user")
                \o << RelProp("memberships", "ONETOMANY") >>]

\* models.Team, with the members backref of TeamMember.team
TeamEntity ==
    [table |-> "team",
     props |-> << ColumnProp("id", <<Col("id", "team", FALSE, TRUE, "INTEGER")>>),
                  ColumnProp("name", <<Col("name", "team", FALSE, FALSE, "VARCHAR(255)")>>),
                  ColumnProp("creator_id",
                             <<Col("creator_id", "team", TRUE, FALSE, "INTEGER")>>),
                  ColumnProp("owner_id",
                             <<Col("owner_id", "team", TRUE, FALSE, "INTEGER")>>) >>
                \o ModelColumns("team")
                \o << RelProp("creator", "MANYTOONE"),
                      RelProp("owner", "MANYTOONE"),
                      RelProp("members", "ONETOMANY") >>]

\* models.TeamMember
TeamMemberEntity ==
    [table |-> "team_member",
     props |-> << ColumnProp("id", <<Col("id", "team_member", FALSE, TRUE, "INTEGER")>>),
                  ColumnProp("team_id",
                             <<Col("team_id", "team_member", TRUE, FALSE, "INTEGER")>>),
                  ColumnProp("user_id",
                             <<Col("user_id", "team_member", TRUE, FALSE, "INTEGER")>>),
                  ColumnProp("status",
                             <<Col("status", "team_member", FALSE, FALSE, "SMALLINT")>>),
                  ColumnProp("role", <<Col("role", "team_member", FALSE, FALSE, "VARCHAR")>>) >>
                \o ModelColumns("team_member")
                \o << RelProp("team", "MANYTOONE"), RelProp("user", "MANYTOONE") >>]

\* the kinds of field a mapped class on table "t" can declare
Pool ==
    << ColumnProp("id", <<Col("id", "t", FALSE, TRUE, "INTEGER")>>),
       \* uid = Column("user_id", Integer, primary_key=True): the keys differ
       ColumnProp("uid", <<Col("user_id", "t", FALSE, TRUE, "INTEGER")>>),
       ColumnProp("name", <<Col("name", "t", FALSE, FALSE, "VARCHAR")>>),
       ColumnProp("owner_id", <<Col("owner_id", "t", TRUE, FALSE, "INTEGER")>>),
       \* the id of a joined subclass table: primary key and foreign key
       ColumnProp("parent_id", <<Col("parent_id", "t", TRUE, TRUE, "INTEGER")>>),
       RelProp("owner", "MANYTOONE"),
       RelProp("members", "ONETOMANY"),
       \* fields backed by two columns: one, none, both of them in table "t"
       ColumnProp("code", <<Col("code", "t", FALSE, FALSE, "VARCHAR"),
                            Col("code", "base", FALSE, FALSE, "VARCHAR")>>),
       ColumnProp("alias", <<Col("alias", "base", FALSE, FALSE, "VARCHAR"),
                             Col("alias", "other", FALSE, FALSE, "VARCHAR")>>),
       ColumnProp("pair", <<Col("pair_a", "t", FALSE, FALSE, "VARCHAR"),
                            Col("pair_b", "t", FALSE, FALSE, "VARCHAR")>>) >>

RECURSIVE PickProps(_, _)
\* the fields of Pool with an index in S, in declaration order
PickProps(S, i) ==
    IF i > Len(Pool) THEN <<>>
    ELSE (IF i \in S THEN <<Pool[i]>> ELSE <<>>) \o PickProps(S, i + 1)

Entities ==
    {UserEntity, TeamEntity, TeamMemberEntity}
    \cup {[table |-> "t", props |-> PickProps(S, 1)] :
             S \in {X \in SUBSET (1 .. Len(Pool)) : Cardinality(X) <= MaxProps}}

FilterNames == {"id", "uid", "user_id", "name", "owner_id", "owner"}
Filters == {X \in SUBSET FilterNames : Cardinality(X) <= MaxFilter}

\* the names the lambda of the column filter can see: its parameter, the locals of
\* register_model_view and the globals of logic.py
LambdaScope ==
    {"x", "model", "exclude", "include", "Column", "columns", "has_include", "p",
     "filter_list", "filtered", "column",
     "wraps", "namedtuple", "current_app", "g", "session", "request", "url_for",
     "models", "STATUS", "ROLE_ADMIN", "ROLE_USER", "ROLE_MEMBER",
     "login_required", "get_current_user", "is_authenticated", "email_is_available",
     "create_user", "create_admin_user", "logout", "get_primary_key",
     "is_relationship", "is_association_proxy", "get_model_property_iterator",
     "register_model_view"}

Descriptor(name, type, pk, rel, sortable) ==
    [name |-> name, type |-> type, is_primary_key |-> pk, is_relationship |-> rel,
     is_sortable |-> sortable]

\* the descriptor of a many-to-one relationship
relationship_descriptor(p) == Descriptor(p.key, None, FALSE, TRUE, FALSE)

\* the primary-key descriptor marked sortable
primary_key_descriptor_sortable(p, column) ==
    Descriptor(column.key, column.type, TRUE, FALSE, TRUE)

\* the descriptor of a primary key: named after the column
primary_key_descriptor(p, column) ==
    Descriptor(column.key, column.type, TRUE, FALSE, FALSE)

\* the descriptor of a plain column: named after the field
plain_descriptor(p, column) == Descriptor(p.key, column.type, FALSE, FALSE, TRUE)

\* the backing column of a field, [raised, skip, column]:
\* filter(lambda x: c.table == model.__table__, p.columns) when it has several
select_column(m, p) ==
    IF Len(p.columns) > 1
    THEN IF "c" \notin LambdaScope
         THEN [raised |-> TRUE, skip |-> TRUE, column |-> p.columns[1]]
         \* the test does not read x: it keeps every column or none
         ELSE [raised |-> FALSE, skip |-> TRUE, column |-> p.columns[1]]
    ELSE [raised |-> FALSE, skip |-> FALSE, column |-> p.columns[1]]

\* the descriptors a column yields, with foreign-key columns let through
column_descriptors_with_fk(p, column) ==
    IF column.pk THEN <<primary_key_descriptor(p, column)>>
    ELSE <<plain_descriptor(p, column)>>

\* the descriptors a column yields: none for a foreign key
column_descriptors(p, column) ==
    IF column.fk THEN <<>>
    ELSE IF column.pk THEN <<primary_key_descriptor(p, column)>>
    ELSE <<plain_descriptor(p, column)>>

\* one pass of the loop body for field p: [raised, out]
visit(m, p, exc, inc) ==
    IF p.key \in exc THEN [raised |-> FALSE, out |-> <<>>]
    ELSE IF inc # {} /\ p.key \notin inc THEN [raised |-> FALSE, out |-> <<>>]
    ELSE IF p.kind = "relationship"
    THEN [raised |-> FALSE,
          out |-> IF p.direction = "MANYTOONE" THEN <<relationship_descriptor(p)>>
                  ELSE <<>>]
    ELSE LET sel == select_column(m, p) IN
         IF sel.raised THEN [raised |-> TRUE, out |-> <<>>]
         ELSE IF sel.skip THEN [raised |-> FALSE, out |-> <<>>]
         ELSE [raised |-> FALSE, out |-> column_descriptors(p, sel.column)]

RECURSIVE model_view_loop(_, _, _, _, _)
\* "for p in get_model_property_iterator(model)" from field i on, acc so far
model_view_loop(m, exc, inc, i, acc) ==
    IF i > Len(m.props) THEN [done |-> TRUE, raised |-> FALSE, out |-> acc]
    ELSE LET v == visit(m, m.props[i], exc, inc) IN
         IF v.raised THEN [done |-> TRUE, raised |-> TRUE, out |-> <<>>]
         ELSE model_view_loop(m, exc, inc, i + 1, acc \o v.out)

\* register_model_view(model, exclude, include)
register_model_view(m, exc, inc) == model_view_loop(m, exc, inc, 1, <<>>)

\* a call of register_model_view
RegisterModelView ==
    /\ ~columns.done
    /\ columns' = register_model_view(model, exclude, include)
    /\ op' = "register_model_view"
    /\ UNCHANGED <<model, include, exclude>>
    /\ UNCHANGED <<users, nextId, gateVars, provVars, facVars, dropVars>>

\* the gate and provisioning parts at rest
CoreIdle ==
    /\ users = {}
    /\ nextId = 1
    /\ session = NoSession
    /\ g = FreshG
    /\ method = "GET"
    /\ loginDisabled = FALSE
    /\ op = "init"
    /\ ret = RetTag("init")
    /\ sinceLogout = "no"
    /\ lookups = 0
    /\ served = "none"
    /\ pc = [p \in Procs |-> "idle"]
    /\ args = [p \in Procs |-> <<>>]
    /\ res = [p \in Procs |-> NoRes]

InitIntro ==
    /\ model \in Entities
    /\ include \in Filters
    /\ exclude \in Filters
    /\ columns = NotRun
    /\ CoreIdle /\ FacIdle /\ DropIdle

NextIntro == RegisterModelView

SpecIntro == InitIntro /\ [][NextIntro]_vars

-----------------------------------------------------------------------------
(* Application factories: web.FactoryRegistry, web.create_app, app.create_app *)

\* the classes app.create_app registers, in order
AppFactories == <<"Database", "Security", "Admin", "Frontend">>
Factories == {AppFactories[i] : i \in DOMAIN AppFactories}

\* the endpoints of self.routes of each class; Database has no routes attribute
Routes(obj) ==
    CASE obj = "Security" -> <<"security.login", "security.signup", "security.logout">>
      [] obj = "Admin" -> <<"admin.homepage", "admin.list", "admin.edit">>
      [] obj = "Frontend" -> <<"homepage">>
      [] OTHER -> <<>>

Endpoints == UNION {{Routes(c)[i] : i \in DOMAIN Routes(c)} : c \in Factories}

\* FactoryRegistry.add(*args)
registry_add(reg, classes) == reg \o classes

\* app.add_url_rule(endpoint=e, view_func=stub(...)): the rule joins the url map,
\* then an endpoint that already has a view function raises AssertionError
add_url_rule(rules, e) ==
    [raised |-> rules[e] > 0, rules |-> [rules EXCEPT ![e] = @ + 1]]

\* web.create_app up to the factory loop, on a new Flask app
StartApp ==
    /\ appState' = "running"
    /\ runPos' = <<1, 0>>
    /\ appInst' = [c \in Factories |-> 0]
    /\ appRules' = [e \in Endpoints |-> 0]
    /\ nCalls' = nCalls + 1

\* app.create_app(): factories.add(...) then web.create_app()
AppCreateApp ==
    /\ appState # "running"
    /\ nCalls < MaxCalls
    /\ registry' = registry_add(registry, AppFactories)
    /\ StartApp
    /\ op' = "app.create_app"
    /\ UNCHANGED <<users, nextId, gateVars, provVars, introVars, dropVars>>

\* web.create_app() called directly, as the manage.py commands do
WebCreateApp ==
    /\ appState # "running"
    /\ nCalls < MaxCalls
    /\ StartApp
    /\ op' = "web.create_app"
    /\ UNCHANGED <<registry, users, nextId, gateVars, provVars, introVars, dropVars>>

\* "for obj in self._registry": self._apps[name] = obj(), init_app, routes lookup
Instantiate ==
    /\ appState = "running"
    /\ runPos[1] <= Len(registry)
    /\ runPos[2] = 0
    /\ LET obj == registry[runPos[1]]
       IN /\ appInst' = [appInst EXCEPT ![obj] = @ + 1]
          /\ runPos' = IF Routes(obj) = <<>> THEN <<runPos[1] + 1, 0>>
                       ELSE <<runPos[1], 1>>
    /\ UNCHANGED <<registry, nCalls, appState, appRules, op>>
    /\ UNCHANGED <<users, nextId, gateVars, provVars, introVars, dropVars>>

\* "for route in self._apps[name].routes": one add_url_rule call
AddUrlRule ==
    /\ appState = "running"
    /\ runPos[1] <= Len(registry)
    /\ runPos[2] > 0
    /\ LET routes == Routes(registry[runPos[1]])
           r == add_url_rule(appRules, routes[runPos[2]])
       IN /\ appRules' = r.rules
          /\ appState' = IF r.raised THEN "raised" ELSE "running"
          /\ runPos' = IF r.raised THEN runPos
                       ELSE IF runPos[2] = Len(routes) THEN <<runPos[1] + 1, 0>>
                       ELSE <<runPos[1], runPos[2] + 1>>
    /\ UNCHANGED <<registry, nCalls, appInst, op>>
    /\ UNCHANGED <<users, nextId, gateVars, provVars, introVars, dropVars>>

\* the loop is exhausted: create_app returns the app
ReturnApp ==
    /\ appState = "running"
    /\ runPos[1] > Len(registry)
    /\ appState' = "built"
    /\ UNCHANGED <<registry, nCalls, runPos, appInst, appRules, op>>
    /\ UNCHANGED <<users, nextId, gateVars, provVars, introVars, dropVars>>

\* importlib.reload(web): the module body runs again, factories is a new registry
ReloadWeb ==
    /\ appState # "running"
    /\ registry # <<>>
    /\ registry' = <<>>
    /\ UNCHANGED <<nCalls, appState, runPos, appInst, appRules, op>>
    /\ UNCHANGED <<users, nextId, gateVars, provVars, introVars, dropVars>>

InitApp == CoreIdle /\ IntroIdle /\ FacIdle /\ DropIdle

NextApp ==
    \/ AppCreateApp
    \/ WebCreateApp
    \/ Instantiate
    \/ AddUrlRule
    \/ ReturnApp
    \/ ReloadWeb

SpecApp == InitApp /\ [][NextApp]_vars

Occurrences(reg, c) == Cardinality({i \in DOMAIN reg : reg[i] = c})

\* C18: no build of app.create_app fails, the registry never holds a class twice,
\* and an app built by app.create_app has each of the four classes instantiated
\* once and each of their routes added as one URL rule
C18_EachFactoryOnce ==
    /\ appState # "raised"
    /\ \A c \in Factories : Occurrences(registry, c) <= 1
    /\ op = "app.create_app" /\ appState = "built" =>
           /\ \A c \in Factories : appInst[c] = 1
           /\ \A e \in Endpoints : appRules[e] = 1

-----------------------------------------------------------------------------
(* Dropping the schema: models.Database.destroy_db *)

\* tables are numbered in the order of MetaData.sorted_tables, referenced tables
\* first: for the schema of models.py 1 is user, 2 is team, 3 is team_member
TableIds == 1 .. MaxTables

\* a foreign key points to a table earlier in the order
ForeignKeys(T) == {fk \in T \X T : fk[1] > fk[2]}

RECURSIVE sorted_tables(_, _)
\* list(self.meta.sorted_tables) for the tables T, from number i on
sorted_tables(T, i) ==
    IF i > MaxTables THEN <<>>
    ELSE (IF i \in T THEN <<i>> ELSE <<>>) \o sorted_tables(T, i + 1)

\* tables.remove(table)
list_remove(l, t) == SelectSeq(l, LAMBDA x : x # t)

\* the names bound in models.py when destroy_db runs
ModelsGlobals ==
    {"sa", "create_engine", "declarative_base", "sessionmaker", "relationship",
     "FlaskForm", "ModelForm", "validators", "StringField", "PasswordField",
     "HiddenField", "SubmitField", "Base", "classproperty", "Model", "User", "Team",
     "TeamMember", "Database"}

\* table.drop(checkfirst=True) is refused: a live table still references t
DropRefused(t) ==
    /\ enforced
    /\ t \in dbTables
    /\ \E c \in dbTables : c # t /\ <<c, t>> \in fkeys

\* destroy_db up to the while loop
DestroyDb ==
    /\ dropState = "idle"
    /\ tables' = sorted_tables(dbTables, 1)
    /\ dropCount' = [t \in dbTables |-> 0]
    /\ dropState' = "while"
    /\ op' = "destroy_db"
    /\ UNCHANGED <<dbTables, forIdx, fkeys, enforced>>
    /\ UNCHANGED <<users, nextId, gateVars, provVars, introVars, facVars>>

\* "while len(tables)": start a pass over the list, or return
WhileTest ==
    /\ dropState = "while"
    /\ dropState' = IF Len(tables) > 0 THEN "for" ELSE "done"
    /\ forIdx' = 1
    /\ UNCHANGED <<dbTables, tables, dropCount, fkeys, enforced, op>>
    /\ UNCHANGED <<users, nextId, gateVars, provVars, introVars, facVars>>

\* the list iterator is past the end of the list
ForEnd ==
    /\ dropState = "for"
    /\ forIdx > Len(tables)
    /\ dropState' = "while"
    /\ UNCHANGED <<dbTables, tables, forIdx, dropCount, fkeys, enforced, op>>
    /\ UNCHANGED <<users, nextId, gateVars, provVars, introVars, facVars>>

\* the drop succeeds and the table leaves the list the iterator walks
DropTable ==
    /\ dropState = "for"
    /\ forIdx <= Len(tables)
    /\ LET t == tables[forIdx]
       IN /\ ~DropRefused(t)
          /\ dbTables' = dbTables \ {t}
          /\ dropCount' = IF t \in dbTables THEN [dropCount EXCEPT ![t] = @ + 1]
                          ELSE dropCount
          /\ tables' = list_remove(tables, t)
    /\ forIdx' = forIdx + 1
    /\ UNCHANGED <<dropState, fkeys, enforced, op>>
    /\ UNCHANGED <<users, nextId, gateVars, provVars, introVars, facVars>>

\* the drop raises: "except InternalError" looks the name up in the module
DropFails ==
    /\ dropState = "for"
    /\ forIdx <= Len(tables)
    /\ DropRefused(tables[forIdx])
    /\ IF "InternalError" \in ModelsGlobals
       THEN dropState' = "for" /\ forIdx' = forIdx + 1
       ELSE dropState' = "raised" /\ forIdx' = forIdx
    /\ UNCHANGED <<dbTables, tables, dropCount, fkeys, enforced, op>>
    /\ UNCHANGED <<users, nextId, gateVars, provVars, introVars, facVars>>

InitDrop ==
    /\ dbTables \in SUBSET TableIds
    /\ fkeys \in SUBSET ForeignKeys(dbTables)
    /\ enforced \in BOOLEAN
    /\ tables = <<>> /\ forIdx = 0 /\ dropCount = <<>> /\ dropState = "idle"
    /\ CoreIdle /\ IntroIdle /\ FacIdle

NextDrop ==
    \/ DestroyDb
    \/ WhileTest
    \/ ForEnd
    \/ DropTable
    \/ DropFails

SpecDrop == InitDrop /\ [][NextDrop]_vars

\* C19: destroy_db never fails, no table is dropped twice, and when it returns
\* every reflected table has been dropped once and the work list is empty
C19_DestroyDropsAll ==
    /\ dropState # "raised"
    /\ dropState \notin {"idle"} => \A t \in DOMAIN dropCount : dropCount[t] <= 1
    /\ dropState = "done" =>
           /\ dbTables = {}
           /\ tables = <<>>
           /\ \A t \in DOMAIN dropCount : dropCount[t] = 1

-----------------------------------------------------------------------------
(* Properties of entity introspection *)

NoFilters == include = {} /\ exclude = {}
Fields == {model.props[i] : i \in DOMAIN model.props}
Returned == {columns.out[k] : k \in DOMAIN columns.out}
FkBacked(p) == p.kind = "column" /\ \E i \in DOMAIN p.columns : p.columns[i].fk
PkField(p) == p.kind = "column" /\ \E i \in DOMAIN p.columns : p.columns[i].pk
MultiColumn(p) == p.kind = "column" /\ Len(p.columns) > 1
OwnColumns(p) == {i \in DOMAIN p.columns : p.columns[i].table = model.table}
Passes(p) == p.key \notin exclude /\ (include = {} \/ p.key \in include)
Finished == columns.done /\ ~columns.raised

\* C11: with no filters the call returns one descriptor per declared field that is
\* not backed by a foreign-key column, and as many primary-key descriptors as the
\* entity has primary-key fields
C11_OneDescriptorPerField ==
    columns.done /\ NoFilters =>
        /\ ~columns.raised
        /\ Len(columns.out)
             = Cardinality({i \in DOMAIN model.props : ~FkBacked(model.props[i])})
        /\ Cardinality({k \in DOMAIN columns.out : columns.out[k].is_primary_key})
             = Cardinality({i \in DOMAIN model.props : PkField(model.props[i])})

\* C12: no returned name is in exclude, every returned name is in a non-empty
\* include, and no field backed by a foreign-key column is returned
C12_FiltersBoundNames ==
    Finished =>
        /\ \A d \in Returned : d.name \notin exclude
        /\ include # {} => \A d \in Returned : d.name \in include
        /\ \A p \in Fields : FkBacked(p) =>
               \A d \in Returned :
                   d.name # p.key /\ \A i \in DOMAIN p.columns : d.name # p.columns[i].key

TeamCall == columns.done /\ model.table = "team" /\ NoFilters

\* C13 as stated: Team with no filters yields exactly 3 descriptors, id as primary
\* key, name sortable, creator and owner as relationships, no creator_id or owner_id
C13_TeamYieldsThree ==
    TeamCall =>
        /\ ~columns.raised
        /\ Len(columns.out) = 3
        /\ \A d \in Returned : d.name \notin {"creator_id", "owner_id"}
        /\ \A d \in Returned : d.name = "id" => d.is_primary_key
        /\ \A d \in Returned : d.name = "name" => d.is_sortable
        /\ \A d \in Returned : d.name \in {"creator", "owner"} => d.is_relationship

\* C13: Team with no filters yields exactly 6 descriptors: id as primary key; name,
\* created and deleted as sortable plain columns; creator and owner as non-sortable
\* relationships; creator_id, owner_id and the members backref yield none
C13_TeamYieldsSix ==
    TeamCall =>
        /\ ~columns.raised
        /\ Len(columns.out) = 6
        /\ Returned = { Descriptor("id", "INTEGER", TRUE, FALSE, FALSE),
                        Descriptor("name", "VARCHAR(255)", FALSE, FALSE, TRUE),
                        Descriptor("created", "DATETIME", FALSE, FALSE, TRUE),
                        Descriptor("deleted", "BOOLEAN", FALSE, FALSE, TRUE),
                        Descriptor("creator", None, FALSE, TRUE, FALSE),
                        Descriptor("owner", None, FALSE, TRUE, FALSE) }

C13_Witness == TeamCall /\ Len(columns.out) = 6

\* C14: every returned descriptor is classified after its field: a many-to-one
\* relationship has is_relationship, type None, no primary key, not sortable; a
\* primary key has is_primary_key, a type, not sortable; any other column is
\* sortable with a type; is_sortable holds exactly for the last kind
C14_ConsistentClassification ==
    Finished =>
        /\ \A d \in Returned :
             /\ d.is_sortable <=> (~d.is_primary_key /\ ~d.is_relationship)
             /\ d.is_relationship =>
                  /\ d.type = None /\ ~d.is_primary_key
                  /\ \E p \in Fields : p.kind = "relationship" /\ p.key = d.name
                                       /\ p.direction = "MANYTOONE"
             /\ d.is_primary_key =>
                  /\ d.type # None /\ ~d.is_relationship
                  /\ \E p \in Fields : /\ PkField(p)
                                       /\ p.columns[1].key = d.name
                                       /\ p.columns[1].type = d.type
             /\ ~d.is_primary_key /\ ~d.is_relationship =>
                  /\ d.type # None
                  /\ \E p \in Fields : /\ p.kind = "column" /\ ~PkField(p)
                                       /\ p.key = d.name /\ p.columns[1].type = d.type
        /\ \A p \in Fields :
             Passes(p) /\ p.kind = "relationship" /\ p.direction = "MANYTOONE" =>
                 relationship_descriptor(p) \in Returned
        /\ \A p \in Fields :
             Passes(p) /\ p.kind = "column" /\ ~MultiColumn(p) /\ ~FkBacked(p) =>
                 \E d \in Returned : /\ d.is_primary_key = p.columns[1].pk
                                     /\ d.is_relationship = FALSE
                                     /\ d.is_sortable = ~p.columns[1].pk
                                     /\ d.type = p.columns[1].type

C14_Witness ==
    /\ Finished /\ model.table = "t"
    /\ \E d \in Returned : d.is_relationship
    /\ \E d \in Returned : d.is_primary_key
    /\ \E d \in Returned : d.is_sortable

\* C16: a field backed by several columns never makes the call fail; it is returned
\* when exactly one of its columns belongs to the entity's own table and skipped
\* otherwise, and the fields after it are still processed
C16_MultiColumnSelected ==
    columns.done =>
        /\ ~columns.raised
        /\ \A p \in Fields : MultiColumn(p) /\ Passes(p) =>
               /\ Cardinality(OwnColumns(p)) = 1 => \E d \in Returned : d.name = p.key
               /\ Cardinality(OwnColumns(p)) # 1 => \A d \in Returned : d.name # p.key

-----------------------------------------------------------------------------
(* Properties of the gate *)

\* g holds a resolved user
Cached(gv) == gv.has /\ gv.user # NoUser

\* the session's token names a stored user that is not soft-deleted and is active
Resolves(sv, us) ==
    \E u \in us : /\ u.login_token = SessionGet(sv)
                  /\ SessionGet(sv) # None
                  /\ ~u.deleted
                  /\ u.status = STATUS_active

\* the session's token names a stored user whose status is blocked
ResolvesBlocked(sv, us) ==
    /\ SessionGet(sv) # None
    /\ get_by_login_token(us, SessionGet(sv)) # NoUser
    /\ Row(us, get_by_login_token(us, SessionGet(sv))).status = STATUS_blocked

GateCall == {"get_current_user", "is_authenticated"}
Anonymous == {"None", "False"}
Authenticated == {"user", "True"}

\* C1: get_current_user / is_authenticated never raise, and report a user exactly
\* when the session's token resolves to a stored, non-deleted, active user
\* (stated for the first resolution of a request, and for every later call).
C1_AuthenticatedIffActiveUser ==
    [][op' \in GateCall =>
          /\ ret'.tag # "raise"
          /\ (ret'.tag \in Authenticated <=> Resolves(session, users))]_vars

\* C2: a view wrapped by login_required runs when the method is OPTIONS, when
\* LOGIN_DISABLED is set or when the request is authenticated, and otherwise the
\* unauthorized handler's result is returned instead of running the view.
C2_LoginRequiredGuards ==
    [][op' = "decorated_view" =>
          ret'.tag = IF \/ method = "OPTIONS"
                        \/ loginDisabled
                        \/ is_authenticated(g, session, users).ret.tag = "True"
                     THEN "view" ELSE "unauthorized"]_vars

\* the session holds no login token and no user is cached for the request
LoggedOut == ~session.has /\ ~Cached(g)

\* C3: logout leaves the session without a login token and without a cached user;
\* that lasts, in this request and in later ones, until a login places a token in
\* the session, and get_current_user / is_authenticated report no user meanwhile.
C3_LogoutStaysAnonymous ==
    [][/\ (op' = "logout" => LoggedOut')
       /\ (LoggedOut /\ op' # "login" => LoggedOut')
       /\ (LoggedOut /\ op' \in GateCall => ret'.tag \in Anonymous)]_vars

\* a later request, after a logout of a cached user, asked for the current user
C3_Witness ==
    /\ sinceLogout = "later"
    /\ op = "get_current_user"
    /\ ret = RetNone
    /\ LoggedOut

\* C4: resolving a token of a blocked user returns no user and clears the token
\* from the session, and a request that starts with the cleared session is
\* anonymous.
C4_BlockedTokenCleared ==
    [][/\ (op' = "get_current_user" /\ ~Cached(g) /\ ResolvesBlocked(session, users)
              => ret' = RetNone /\ session' = [has |-> TRUE, token |-> None])
       /\ (op' \in GateCall /\ g = FreshG /\ SessionGet(session) = None
              => ret'.tag \in Anonymous /\ SessionGet(session') = None)]_vars

\* a later request found the token cleared by the blocked branch
C4_Witness ==
    /\ session = [has |-> TRUE, token |-> None]
    /\ g = FreshG
    /\ op = "get_current_user"
    /\ ret = RetNone

-----------------------------------------------------------------------------
(* Properties of provisioning *)

\* caller p runs the availability check of a new call in this step
CheckStep(p) == pc[p] = "idle" /\ pc'[p] # "idle"

\* caller p runs the transaction of its call in this step
TxnStep(p) == pc[p] = "txn" /\ pc'[p] = "done"

Holders(us, email) == {u \in us : u.email = email}
LiveHolders(us, email) == {u \in us : u.email = email /\ ~u.deleted}

\* the transaction body of the call raises before anything is added
BodyRaises(a) == \A s \in ProvSalts : create_user_body(a, nextId, s).raised

\* C5: a create_user call made after an earlier call created a record with the
\* same email returns None without raising, and storage still holds exactly one
\* record with that email.
C5_SecondCallReturnsNone ==
    [][\A p, q \in Procs :
          (/\ p # q
           /\ pc[p] = "done" /\ res[p].tag = "created"
           /\ \E u \in users : u.id = res[p].user.id
           /\ CheckStep(q)
           /\ args'[q].email = args[p].email)
          => /\ pc'[q] = "done"
             /\ res'[q].tag = "None"
             /\ users' = users
             /\ Cardinality(Holders(users', args[p].email)) = 1]_vars

\* the first call created the record and the second call returned None
C5_Witness ==
    \E p, q \in Procs :
        /\ p # q
        /\ pc[p] = "done" /\ res[p].tag = "created"
        /\ pc[q] = "done" /\ res[q].tag = "None"
        /\ args[q].email = args[p].email
        /\ res[p].user \in users
        /\ Cardinality(Holders(users, args[p].email)) = 1

\* C6: when the transaction body of create_user raises, the call raises to its
\* caller and storage is left as it was: no record of the call remains, so an
\* email that was free has zero records.
C6_FailureRollsBackAndPropagates ==
    [][\A p \in Procs :
          TxnStep(p) =>
             /\ (BodyRaises(args[p]) => res'[p].tag = "raise")
             /\ (res'[p].tag # "created" =>
                    /\ res'[p].tag = "raise"
                    /\ res'[p].user = NoRow
                    /\ users' = users)
             /\ (BodyRaises(args[p]) /\ Holders(users, args[p].email) = {}
                    => Holders(users', args[p].email) = {})]_vars

\* hashing failed inside the transaction and no record with the email exists
C6_Witness ==
    \E p \in Procs :
        /\ pc[p] = "done" /\ res[p].tag = "raise"
        /\ args[p].password = None
        /\ args[p].status # NoneInt
        /\ Holders(users, args[p].email) = {}

\* C7: create_admin_user with an available email and a password stores a user
\* found by that email with role "admin" and status active, and returns it.
C7_AdminUserCreated ==
    [][\A p \in Procs :
          (/\ TxnStep(p)
           /\ args[p].fn = "create_admin_user"
           /\ args[p].password # None
           /\ email_is_available(users, args[p].email))
          => /\ res'[p].tag = "created"
             /\ res'[p].user \in users'
             /\ res'[p].user.id = query_first_by_email(users', args[p].email)
             /\ res'[p].user.role = ROLE_ADMIN
             /\ res'[p].user.status = STATUS_active]_vars

\* an admin user was created and is the row found by its email
C7_Witness ==
    \E p \in Procs :
        /\ pc[p] = "done" /\ res[p].tag = "created"
        /\ args[p].fn = "create_admin_user"
        /\ res[p].user \in users
        /\ res[p].user.role = ROLE_ADMIN
        /\ query_first_by_email(users, args[p].email) = res[p].user.id

\* C8: a user given password p stores a hash that is not None and differs from p,
\* check_password(p) returns True and check_password of another password
\* returns False.
C8_PasswordRoundTrip ==
    \A u \in users :
        u.password_hash # None =>
           /\ u.password_hash # args[1].password
           /\ (res[1].tag = "checked" =>
                  res[1].check = IF res[1].value = args[1].password
                                 THEN "True" ELSE "False")

\* C9 as claimed: the check passes, and the creation succeeds, exactly when the
\* email is not None and no row that is not soft-deleted holds it; a refused call
\* returns None and leaves storage unchanged.
C9_AvailableIffNoLiveHolder ==
    [][\A p \in Procs :
          /\ (CheckStep(p) =>
                 /\ (pc'[p] = "txn" <=>
                        (args'[p].email # None /\ LiveHolders(users, args'[p].email) = {}))
                 /\ (pc'[p] = "done" => res'[p].tag = "None")
                 /\ users' = users)
          /\ (TxnStep(p) /\ ~BodyRaises(args[p])
                 /\ LiveHolders(users, args[p].email) = {}
                 => res'[p].tag = "created")]_vars

\* C9 amended: the same with every stored row, soft-deleted or not, counting as a
\* holder of its email.
C9_AvailableIffNoHolder ==
    [][\A p \in Procs :
          /\ (CheckStep(p) =>
                 /\ (pc'[p] = "txn" <=>
                        (args'[p].email # None /\ Holders(users, args'[p].email) = {}))
                 /\ (pc'[p] = "done" => res'[p].tag = "None")
                 /\ users' = users)
          /\ (TxnStep(p) /\ ~BodyRaises(args[p])
                 /\ Holders(users, args[p].email) = {}
                 => /\ res'[p].tag = "created"
                    /\ Holders(users', args[p].email) = {res'[p].user})]_vars

\* a call was refused for an email that only a soft-deleted row holds
C9_Witness ==
    \E p \in Procs :
        /\ pc[p] = "done" /\ res[p].tag = "None"
        /\ args[p].email # None
        /\ Holders(users, args[p].email) # {}
        /\ LiveHolders(users, args[p].email) = {}

\* no two rows of the user table hold the same email
UniqueEmails(us) == \A u, v \in us : u.email = v.email => u = v

\* C10: under every interleaving of create_user calls no two rows hold the same
\* email; a transaction that finds its email taken is rejected and leaves storage
\* as it was; of two finished calls for one email at most one has its record stored.
C10_UniqueEmailUnderRace ==
    [][/\ UniqueEmails(users')
       /\ \A p \in Procs :
             TxnStep(p) /\ Holders(users, args[p].email) # {}
                => res'[p].tag = "raise" /\ users' = users
       /\ \A p, q \in Procs :
             (/\ p # q
              /\ res'[p].tag = "created" /\ res'[q].tag = "created"
              /\ args'[p].email = args'[q].email)
             => ~(\E u, v \in users' : u.id = res'[p].user.id /\ v.id = res'[q].user.id)]_vars

\* both callers passed the check, one inserted and the other was rejected
C10_Witness ==
    \E p, q \in Procs :
        /\ p # q
        /\ pc[p] = "done" /\ res[p].tag = "created"
        /\ pc[q] = "done" /\ res[q].tag = "raise"
        /\ args[p].email = args[q].email
        /\ args[q].password # None /\ args[q].status # NoneInt
        /\ res[p].user \in users

-----------------------------------------------------------------------------
(* Properties of the gate: caching within a request *)

GateCalls == GateCall \cup {"context_processor"}

\* C15: once a call has resolved the session token to a user, that user stays in
\* g for the rest of the request (until a logout), and every later call returns
\* it from g without going to storage again.
C15_ResolvedOncePerRequest ==
    [][/\ (op' \in GateCalls /\ Cached(g) =>
              /\ lookups' = lookups
              /\ served' = "cache"
              /\ g' = g)
       /\ (op' \in GateCall /\ Cached(g) => ret'.tag \in Authenticated)
       /\ (op' = "get_current_user" /\ Cached(g) => ret' = RetUser(g.user))
       /\ (Cached(g) /\ op' \notin {"logout", "request"} => g' = g)]_vars

\* a call of a request was answered from g after the one lookup of the request
C15_Witness ==
    /\ op = "get_current_user"
    /\ served = "cache"
    /\ lookups = 1
    /\ ret = RetUser(g.user)
    /\ SessionGet(session) # None

\* C17: with session and storage unchanged between them, get_current_user and
\* is_authenticated of one request agree: is_authenticated is True exactly when
\* get_current_user returns a user; in particular the template variables built by
\* context_processor are never "no user" together with "authenticated".
C17_GateCallsAgree ==
    [][/\ (op' = "context_processor" /\ ret'.tag = "context" =>
              (ret'.auth = "True" <=> ret'.id # NoUser))
       /\ (op = "get_current_user" /\ op' = "is_authenticated" =>
              (ret'.tag = "True" <=> ret.tag = "user"))
       /\ (op = "is_authenticated" /\ op' = "get_current_user" =>
              (ret'.tag = "user" <=> ret.tag = "True"))]_vars

====
